---- MODULE Spec2Model ----
(***************************************************************************)
(* pathlra-aliaser: the alias-resolution engine of src/pathlra-aliaser.js  *)
(* (the second, complete copy of the module, lines 709-1293).              *)
(*                                                                         *)
(* Strings are sequences of one-character strings, so that slicing,        *)
(* startsWith and charCodeAt are computed and not assumed.  An absent      *)
(* value (null / undefined) is the empty sequence None and a present one   *)
(* is the one-element sequence <<x>>.                                      *)
(***************************************************************************)
EXTENDS Integers, Sequences, FiniteSets, TLC

VARIABLES
  s,        \* p.sep, the platform's path separator (line 715)
  rc,       \* the resolution cache: [max, m, h, t] (class lru, line 793)
  ev_b,     \* eviction batch size (line 721, reassigned by opt)
  strat,    \* active strategy, lin or rdx (line 724)
  minMode,  \* minimal footprint mode (line 729)
  am,       \* registry: the Map alias -> target, in insertion order (line 921)
  seenAliases, \* prefixes registered since the last reset (line 922)
  tree,     \* radix tree or None (line 923)
  sa,       \* sorted alias array or None (line 924)
  ha,       \* has active aliases (line 926)
  ac,       \* aliases changed, rebuild pending (line 927)
  cp,       \* custom paths: the Set, in insertion order (line 920)
  pa,       \* the custom paths by descending length (line 925)
  pc,       \* paths changed, propagation pending (line 928)
  hrld,     \* hot reload enabled (line 728)
  imm,      \* number of setImmediate(apc) callbacks not yet run (line 1055)
  paths,    \* md.paths of the main module and of the parent module
  watch,    \* number of f.watch listeners on package.json (line 1134)
  dbg,      \* debug mode (line 727)
  last,     \* what the last public call did and returned (observation)
  used,     \* the cached keys, the one got or set last first (observation)
  calls     \* number of public calls made so far (bounds the histories of Spec)

engine == <<s, rc, ev_b, strat, minMode, am, seenAliases, tree, sa, ha, ac>>
dirs == <<cp, pa, pc>>
host == <<hrld, imm, paths, watch, dbg>>
vars == <<engine, dirs, host, last, used, calls>>

None == <<>>
Some(x) == <<x>>

(***************************************************************************)
(* Program constants.  The cache sizes and the alias-count thresholds are  *)
(* scaled down so that a cache can be filled and a threshold crossed in a  *)
(* small state space: the source has csz = 10000 with a batch of csz / 10, *)
(* a minimal mode of 1000 / 100, and thresholds of 10 and 100 aliases. The *)
(* order relations of the source are kept: batch <= capacity in each mode, *)
(* minimal sizes below full sizes, minimal threshold below radix threshold.*)
(***************************************************************************)
csz == 4
BatchDiv == 2
MinMax == 2
MinModeBelow == 2
LinearBelow == 3

f_sl == "/"
b_sl == "\\"
lin == 0
rdx == 1
NaN == "NaN"

\* Math.floor(csz * 0.1), and the literal 100 = 1000 / 10 of line 1097
FullEvb == csz \div BatchDiv
MinEvb == MinMax \div BatchDiv

(***************************************************************************)
(* String primitives of JavaScript, on sequences, with 0-based indices.    *)
(***************************************************************************)
Min2(x, y) == IF x < y THEN x ELSE y

charCodeAt(str, i) == IF i >= 0 /\ i < Len(str) THEN str[i + 1] ELSE NaN

slice(str, i) == SubSeq(str, Min2(i, Len(str)) + 1, Len(str))

slice2(str, i, j) == SubSeq(str, i + 1, Min2(j, Len(str)))

startsWith(str, pre, d) ==
  /\ d + Len(pre) <= Len(str)
  /\ \A i \in 1..Len(pre) : str[d + i] = pre[i]

includes(str, sub) ==
  \E d \in 0..Len(str) : startsWith(str, sub, d)

indexOf(str, c, from) ==
  IF \E i \in (from + 1)..Len(str) : str[i] = c
  THEN (CHOOSE i \in (from + 1)..Len(str) :
          /\ str[i] = c
          /\ \A k \in (from + 1)..(i - 1) : str[k] # c) - 1
  ELSE -1

RECURSIVE split(_, _)
split(str, c) ==
  LET i == indexOf(str, c, 0)
  IN IF i < 0 THEN <<str>>
     ELSE <<slice2(str, 0, i)>> \o split(slice(str, i + 1), c)

RECURSIVE join(_, _)
join(parts, c) ==
  IF Len(parts) = 0 THEN <<>>
  ELSE IF Len(parts) = 1 THEN parts[1]
  ELSE parts[1] \o <<c>> \o join(Tail(parts), c)

\* [f_sl, b_sl, sc].includes(code): the boundary characters
isSep(c) == c = f_sl \/ c = b_sl \/ c = s

\* length of the common run of ed and a.slice(i) (lines 837, 904)
RECURSIVE commonLen(_, _, _, _)
commonLen(ed, a, i, j) ==
  IF j < Len(ed) /\ i + j < Len(a) /\ charCodeAt(ed, j) = charCodeAt(a, i + j)
  THEN commonLen(ed, a, i, j + 1)
  ELSE j

(***************************************************************************)
(* class lru.  m maps each key of the Map to its node [v, prev, next];     *)
(* prev and next hold None or <<key of the neighbour>>.                    *)
(***************************************************************************)
lruNew(max) == [max |-> max, m |-> <<>>, h |-> None, t |-> None]

lruHas(c, k) == k \in DOMAIN c.m

\* get without the relinking of lines 745-752
lruGetNoPromote(c, k) == c

lruGet(c, k) ==
  IF ~lruHas(c, k) THEN c
  ELSE IF c.h = Some(k) THEN c
  ELSE
    LET n  == c.m[k]
        m1 == IF n.prev # None
              THEN [c.m EXCEPT ![n.prev[1]].next = n.next] ELSE c.m
        m2 == IF n.next # None
              THEN [m1 EXCEPT ![n.next[1]].prev = n.prev] ELSE m1
        t1 == IF c.t = Some(k) THEN n.prev ELSE c.t
        m3 == [m2 EXCEPT ![k].prev = None, ![k].next = c.h]
        m4 == IF c.h # None
              THEN [m3 EXCEPT ![c.h[1]].prev = Some(k)] ELSE m3
    IN [c EXCEPT !.m = m4, !.h = Some(k), !.t = t1]

\* the for loop of evt: <<Map after the deletions, c after the loop>>
RECURSIVE evtLoop(_, _, _, _, _)
evtLoop(m0, m, cur, i, evb) ==
  IF i < evb /\ cur # None
  THEN evtLoop(m0, [k \in DOMAIN m \ {cur[1]} |-> m[k]], m0[cur[1]].prev,
               i + 1, evb)
  ELSE <<m, cur>>

\* evt with the loop bound off by one (i <= ev_b)
lruEvtOneMore(c, evb) ==
  IF c.t = None THEN c
  ELSE
    LET r   == evtLoop(c.m, c.m, c.t, 0, evb + 1)
        m1  == r[1]
        cur == r[2]
    IN IF cur # None
       THEN [c EXCEPT !.m = [m1 EXCEPT ![cur[1]].next = None], !.t = cur]
       ELSE [c EXCEPT !.m = m1, !.h = None, !.t = None]

\* evt without line 778, c.next = null
lruEvtKeepsLink(c, evb) ==
  IF c.t = None THEN c
  ELSE
    LET r   == evtLoop(c.m, c.m, c.t, 0, evb)
        m1  == r[1]
        cur == r[2]
    IN IF cur # None
       THEN [c EXCEPT !.m = m1, !.t = cur]
       ELSE [c EXCEPT !.m = m1, !.h = None, !.t = None]

lruEvt(c, evb) ==
  IF c.t = None THEN c
  ELSE
    LET r   == evtLoop(c.m, c.m, c.t, 0, evb)
        m1  == r[1]
        cur == r[2]
    IN IF cur # None
       THEN [c EXCEPT !.m = [m1 EXCEPT ![cur[1]].next = None], !.t = cur]
       ELSE [c EXCEPT !.m = m1, !.h = None, !.t = None]

\* set that links the new node but never enters it in the Map
lruSetNoEntry(c, k, v, evb) ==
  IF lruHas(c, k) THEN lruGet([c EXCEPT !.m[k].v = v], k) ELSE c

lruSet(c, k, v, evb) ==
  IF lruHas(c, k) THEN lruGet([c EXCEPT !.m[k].v = v], k)
  ELSE
    LET n  == [v |-> v, prev |-> None, next |-> c.h]
        m1 == IF c.h # None
              THEN [c.m EXCEPT ![c.h[1]].prev = Some(k)] ELSE c.m
        t1 == IF c.t = None THEN Some(k) ELSE c.t
        m2 == (k :> n) @@ m1
        c2 == [c EXCEPT !.m = m2, !.h = Some(k), !.t = t1]
    IN IF Cardinality(DOMAIN m2) > c.max THEN lruEvt(c2, evb) ELSE c2

\* clr without line 786, this.m.clear()
lruClrKeepsMap(c) == [c EXCEPT !.h = None, !.t = None]

lruClr(c) == [c EXCEPT !.m = <<>>, !.h = None, !.t = None]

\* the keys from head to tail along the next links
RECURSIVE lruWalk(_, _, _)
lruWalk(c, cur, n) ==
  IF cur = None \/ n = 0 THEN <<>>
  ELSE <<cur[1]>> \o lruWalk(c, c.m[cur[1]].next, n - 1)

lruOrder(c) == lruWalk(c, c.h, Cardinality(DOMAIN c.m))

(***************************************************************************)
(* Targets.  A static target is a string; a dynamic target is one of the   *)
(* caller's resolver functions, named by val[1].  callFn is what the       *)
(* resolvers used here return: a string, a string that validation rejects, *)
(* or a value that is not a string.                                        *)
(***************************************************************************)
Static(path) == [kind |-> "string", val |-> path]
Dynamic(name) == [kind |-> "function", val |-> <<name>>]
NoTarget == [kind |-> "null", val |-> <<>>]

callFn(t, pp, req, a) ==
  IF t.val[1] = "fnD" THEN [kind |-> "string", val |-> <<"/", "d">>]
  ELSE IF t.val[1] = "fnUp" THEN [kind |-> "string", val |-> <<"/", ".", ".">>]
  ELSE [kind |-> "number", val |-> <<>>]

(***************************************************************************)
(* class rn / class rt.  A node is [e, l, t, c]; c maps the character a    *)
(* child is stored under to the child.  A null c and an empty c behave     *)
(* alike in ins and fnd (lines 822, 891-894), so both are the empty map.   *)
(***************************************************************************)
rn == [e |-> <<>>, l |-> FALSE, t |-> NoTarget, c |-> <<>>]

leaf(e, t) == [e |-> e, l |-> TRUE, t |-> t, c |-> <<>>]

put(c, k, n) == (k :> n) @@ c

RECURSIVE ins(_, _, _, _)
ins(n, a, i, t) ==
  IF ~(i < Len(a)) THEN [n EXCEPT !.t = t, !.l = TRUE]
  ELSE
    LET cc == charCodeAt(a, i)
    IN IF cc \notin DOMAIN n.c
       THEN [n EXCEPT !.c = put(n.c, cc, leaf(slice(a, i), t))]
       ELSE
         LET ch == n.c[cc]
             ed == ch.e
             el == Len(ed)
             j  == commonLen(ed, a, i, 0)
         IN IF j = el
            THEN [n EXCEPT !.c = put(n.c, cc, ins(ch, a, i + el, t))]
            ELSE IF j > 0
            THEN
              LET es == charCodeAt(ed, j)
                  ns == charCodeAt(a, i + j)
                  c1 == put(<<>>, es, [ch EXCEPT !.e = slice(ed, j)])
                  c2 == put(c1, ns, leaf(slice(a, i + j), t))
                  sp == [rn EXCEPT !.e = slice2(ed, 0, j), !.c = c2]
              IN [n EXCEPT !.c = put(n.c, cc, sp)]
            ELSE
              LET es0 == charCodeAt(ed, 0)
                  ns2 == charCodeAt(a, i)
                  c1  == put(<<>>, es0, ch)
                  c2  == put(c1, ns2, leaf(slice(a, i), t))
                  br  == [rn EXCEPT !.c = c2]
              IN [n EXCEPT !.c = put(n.c, cc, br)]

RECURSIVE fndLoop(_, _, _, _)
fndLoop(n, d, lm, req) ==
  IF ~(d < Len(req)) THEN lm
  ELSE
    LET lm1 == IF n.l /\ isSep(charCodeAt(req, d))
               THEN Some([a |-> n.e, t |-> n.t]) ELSE lm
        cd  == charCodeAt(req, d)
    IN IF cd \notin DOMAIN n.c THEN lm1
       ELSE
         LET ch == n.c[cd]
             ed == ch.e
             el == Len(ed)
         IN IF startsWith(req, ed, d)
            THEN IF ch.l /\ d + el = Len(req)
                 THEN Some([a |-> ed, t |-> ch.t])
                 ELSE fndLoop(ch, d + el, lm1, req)
            ELSE
              LET k == commonLen(ed, req, d, 0)
              IN IF k = 0 THEN lm1
                 ELSE IF ch.l /\ (d + k = Len(req)
                                   \/ isSep(charCodeAt(req, d + k)))
                 THEN Some([a |-> slice2(ed, 0, k), t |-> ch.t])
                 ELSE lm1

fnd(root, req) == fndLoop(root, 0, None, req)

(***************************************************************************)
(* The registry am: a Map, kept as the sequence of its entries [a, t] in   *)
(* insertion order (a Map iterates in insertion order, and set on an       *)
(* existing key keeps the key's place).                                    *)
(***************************************************************************)
amKeys(q) == {q[i].a : i \in 1..Len(q)}

amHas(q, a) == a \in amKeys(q)

amGet(q, a) == q[CHOOSE i \in 1..Len(q) : q[i].a = a].t

amSet(q, a, t) ==
  IF amHas(q, a)
  THEN [i \in 1..Len(q) |-> IF q[i].a = a THEN [a |-> a, t |-> t] ELSE q[i]]
  ELSE Append(q, [a |-> a, t |-> t])

\* [...am.entries()].sort((x, y) => y[0].length - x[0].length), a stable sort
RECURSIVE sortByLenDesc(_)
sortByLenDesc(q) ==
  IF Len(q) = 0 THEN <<>>
  ELSE
    LET e    == q[Len(q)]
        rest == sortByLenDesc(SubSeq(q, 1, Len(q) - 1))
        keep == {i \in 1..Len(rest) : Len(rest[i].a) >= Len(e.a)}
        n    == Cardinality(keep)
    IN SubSeq(rest, 1, n) \o <<e>> \o SubSeq(rest, n + 1, Len(rest))

RECURSIVE bldFrom(_, _, _)
bldFrom(root, q, i) ==
  IF i > Len(q) THEN root
  ELSE bldFrom(ins(root, q[i].a, 0, q[i].t), q, i + 1)

bld(q) == bldFrom(rn, q, 1)

\* opt with the test of line 1103 reading cnt <= 100
optLinearAtThreshold ==
  LET cnt == Len(am)
      cur == [ha |-> ha, sa |-> sa, tree |-> tree, strat |-> strat,
              minMode |-> minMode, max |-> rc.max, ev_b |-> ev_b]
  IN IF cnt = 0
     THEN [cur EXCEPT !.ha = FALSE, !.sa = None, !.tree = None,
                      !.strat = lin, !.minMode = FALSE]
     ELSE
       LET mm == cnt < MinModeBelow
           c1 == [cur EXCEPT !.minMode = mm,
                             !.max = IF mm THEN MinMax ELSE csz,
                             !.ev_b = IF mm THEN MinEvb ELSE FullEvb]
       IN IF cnt <= LinearBelow
          THEN [c1 EXCEPT !.strat = lin, !.sa = Some(sortByLenDesc(am)),
                          !.tree = None]
          ELSE [c1 EXCEPT !.strat = rdx, !.tree = Some(bld(am)),
                          !.sa = None]

\* opt without the else branch of lines 1098-1101
optNoRestore ==
  LET cnt == Len(am)
      cur == [ha |-> ha, sa |-> sa, tree |-> tree, strat |-> strat,
              minMode |-> minMode, max |-> rc.max, ev_b |-> ev_b]
  IN IF cnt = 0
     THEN [cur EXCEPT !.ha = FALSE, !.sa = None, !.tree = None,
                      !.strat = lin, !.minMode = FALSE]
     ELSE
       LET mm == cnt < MinModeBelow
           c1 == [cur EXCEPT !.minMode = mm,
                             !.max = IF mm THEN MinMax ELSE rc.max,
                             !.ev_b = IF mm THEN MinEvb ELSE ev_b]
       IN IF cnt < LinearBelow
          THEN [c1 EXCEPT !.strat = lin, !.sa = Some(sortByLenDesc(am)),
                          !.tree = None]
          ELSE [c1 EXCEPT !.strat = rdx, !.tree = Some(bld(am)),
                          !.sa = None]

noOpt ==
  [ha |-> ha, sa |-> sa, tree |-> tree, strat |-> strat,
   minMode |-> minMode, max |-> rc.max, ev_b |-> ev_b]

\* opt() run on the registry q, cur holding the variables as it finds them:
\* the values of the variables it assigns, as a record
optOn(q, cur) ==
  LET cnt == Len(q)
  IN IF cnt = 0
     THEN [cur EXCEPT !.ha = FALSE, !.sa = None, !.tree = None,
                      !.strat = lin, !.minMode = FALSE]
     ELSE
       LET mm == cnt < MinModeBelow
           c1 == [cur EXCEPT !.minMode = mm,
                             !.max = IF mm THEN MinMax ELSE csz,
                             !.ev_b = IF mm THEN MinEvb ELSE FullEvb]
       IN IF cnt < LinearBelow
          THEN [c1 EXCEPT !.strat = lin, !.sa = Some(sortByLenDesc(q)),
                          !.tree = None]
          ELSE [c1 EXCEPT !.strat = rdx, !.tree = Some(bld(q)),
                          !.sa = None]

\* opt() as a resolve runs it
opt == optOn(am, noOpt)

(***************************************************************************)
(* The custom paths.  p.normalize for paths without a drive letter or a    *)
(* UNC root: runs of separators collapse, "." segments go, ".." takes the  *)
(* segment before it away, a trailing separator stays; win32 reads both    *)
(* slashes as separators and writes backslashes.                           *)
(***************************************************************************)
isPathSep(c) == c = f_sl \/ (s = b_sl /\ c = b_sl)

RECURSIVE segments(_, _, _)
segments(str, i, cur) ==
  IF i > Len(str) THEN <<cur>>
  ELSE IF isPathSep(str[i]) THEN <<cur>> \o segments(str, i + 1, <<>>)
  ELSE segments(str, i + 1, Append(cur, str[i]))

RECURSIVE normalizeString(_, _, _, _)
normalizeString(sg, i, acc, allowAboveRoot) ==
  IF i > Len(sg) THEN acc
  ELSE IF sg[i] = <<>> \/ sg[i] = <<".">>
  THEN normalizeString(sg, i + 1, acc, allowAboveRoot)
  ELSE IF sg[i] = <<".", ".">>
  THEN IF Len(acc) > 0 /\ acc[Len(acc)] # <<".", ".">>
       THEN normalizeString(sg, i + 1, SubSeq(acc, 1, Len(acc) - 1),
                            allowAboveRoot)
       ELSE IF allowAboveRoot
       THEN normalizeString(sg, i + 1, Append(acc, sg[i]), allowAboveRoot)
       ELSE normalizeString(sg, i + 1, acc, allowAboveRoot)
  ELSE normalizeString(sg, i + 1, Append(acc, sg[i]), allowAboveRoot)

normalize(d) ==
  IF d = <<>> THEN <<".">>
  ELSE
    LET isAbsolute == isPathSep(d[1])
        trailing   == isPathSep(d[Len(d)])
        body == join(normalizeString(segments(d, 1, <<>>), 1, <<>>,
                                     ~isAbsolute), s)
    IN IF body = <<>>
       THEN IF isAbsolute THEN <<s>>
            ELSE IF trailing THEN <<".", s>> ELSE <<".">>
       ELSE (IF isAbsolute THEN <<s>> ELSE <<>>) \o body
            \o (IF trailing THEN <<s>> ELSE <<>>)

cpHas(q, d) == \E i \in 1..Len(q) : q[i] = d

\* the sort of line 1053 with the comparison turned round (x.length - y.length)
RECURSIVE sortDirsAscending(_)
sortDirsAscending(q) ==
  IF Len(q) = 0 THEN <<>>
  ELSE
    LET e    == q[Len(q)]
        rest == sortDirsAscending(SubSeq(q, 1, Len(q) - 1))
        keep == {i \in 1..Len(rest) : Len(rest[i]) <= Len(e)}
        n    == Cardinality(keep)
    IN SubSeq(rest, 1, n) \o <<e>> \o SubSeq(rest, n + 1, Len(rest))

\* [...cp].sort((x, y) => y.length - x.length), a stable sort
RECURSIVE sortDirs(_)
sortDirs(q) ==
  IF Len(q) = 0 THEN <<>>
  ELSE
    LET e    == q[Len(q)]
        rest == sortDirs(SubSeq(q, 1, Len(q) - 1))
        keep == {i \in 1..Len(rest) : Len(rest[i]) >= Len(e)}
        n    == Cardinality(keep)
    IN SubSeq(rest, 1, n) \o <<e>> \o SubSeq(rest, n + 1, Len(rest))

(***************************************************************************)
(* The host's modules whose search paths the engine edits: require.main    *)
(* and module.parent, the end of the parent chain.  Each starts with the   *)
(* search path the host gave it.                                           *)
(***************************************************************************)
Modules == {"main", "parent"}

NodeModules == <<"n", "o", "d", "e", "_", "m", "o", "d", "u", "l", "e", "s">>

HostPath == <<"/", "n">>

\* ump(md): the for loop of lines 1074-1076 over cp from its i-th element
RECURSIVE ump(_, _, _)
ump(mdPaths, q, i) ==
  IF i > Len(q) THEN mdPaths
  ELSE ump(IF cpHas(mdPaths, q[i]) THEN mdPaths ELSE <<q[i]>> \o mdPaths,
           q, i + 1)

\* apc(): the search paths it leaves, with pcv for pc and q for cp
apc(ps, q, pcv) ==
  IF ~pcv THEN ps ELSE [md \in DOMAIN ps |-> ump(ps[md], q, 1)]

\* cmp(md): md.paths.filter((x) => !cp.has(x))
cmp(mdPaths, q) == SelectSeq(mdPaths, LAMBDA x : ~cpHas(q, x))

(***************************************************************************)
(* Mod._resolveFilename, piece by piece.                                   *)
(***************************************************************************)
\* lines 955-962: the underscore rewrite of the request
underscore(req) ==
  IF ~includes(req, <<"/">>) /\ includes(req, <<"_">>)
  THEN
    LET parts == split(req, "_")
        aliasCandidate == <<"_">> \o parts[2]
    IN IF amHas(am, aliasCandidate)
       THEN
         LET rest == join(SubSeq(parts, 3, Len(parts)), "_")
         IN aliasCandidate \o (IF rest # <<>> THEN <<"/">> \o rest ELSE <<>>)
       ELSE req
  ELSE req

\* lines 971-982: the linear scan over sa
RECURSIVE linScan(_, _, _)
linScan(arr, i, req) ==
  IF i > Len(arr) THEN None
  ELSE
    LET a  == arr[i].a
        al == Len(a)
    IN IF al > Len(req) THEN linScan(arr, i + 1, req)
       ELSE IF startsWith(req, a, 0)
               /\ (al = Len(req) \/ isSep(charCodeAt(req, al)))
       THEN Some(arr[i])
       ELSE linScan(arr, i + 1, req)

\* lines 1018-1028
isValidTarget(t) ==
  /\ ~includes(t, <<".", ".">>)
  /\ ~includes(t, <<"~">>)
  /\ ~includes(t, <<"NUL">>)

\* line 1002: the rewritten path
rewrite(rtg, req, a) ==
  LET sf == slice(req, Len(a))
  IN IF sf # <<>>
     THEN rtg \o (IF charCodeAt(sf, 0) = s THEN sf ELSE <<s>> \o sf)
     ELSE rtg

\* _rfn, the host loader: the file it resolves the path handed to it to
rfn(rr) == [file |-> rr]

\* line 944: the cache key pp + nul + req (no modelled string holds a NUL,
\* so the key determines the pair)
cacheKey(pp, req) == <<pp, req>>

(***************************************************************************)
(* The observation of a public call: what it was, and for a resolve the    *)
(* cache outcome, the rebuild, the matcher and resolver invocations, the   *)
(* match, the path handed to the host loader, the value returned and the   *)
(* error thrown; again says that the call before it was a resolve of the   *)
(* same key that returned a value, evicted counts the entries the call     *)
(* removed from the cache, added says that an ap call entered a new path,  *)
(* arg holds the prefix and the target of an aa call, dir the path handed  *)
(* to an ap call; for addAliases, added says that the mapping had entries. *)
(***************************************************************************)
obs(op) ==
  [op |-> op, key |-> None, hit |-> FALSE, rebuilt |-> FALSE, mcalls |-> 0,
   via |-> lin, dyn |-> None, mr |-> None, rr |-> None, ret |-> None,
   err |-> "none", notice |-> FALSE, again |-> FALSE, evicted |-> 0,
   added |-> FALSE, arg |-> None, dir |-> None]

\* missOut without the typeof test of lines 990-994
missOutNoTypeCheck(pp, rawReq, req, o, doOpt, crash, mr, isFn, rtg) ==
  [o |-> o, doOpt |-> doOpt, req |-> req, mr |-> mr,
   err |-> IF crash THEN "TypeError"
           ELSE IF mr = None THEN "none"
           ELSE IF ~isValidTarget(rtg.val) THEN "RejectedTarget"
           ELSE "none",
   rr |-> IF mr = None THEN rawReq
          ELSE rewrite(rtg.val, req, mr[1].a),
   mcalls |-> IF ha /\ ~crash THEN 1 ELSE 0,
   dyn |-> IF isFn THEN Some(<<pp, req, mr[1].a>>) ELSE None]

\* missOut without the isValidTarget test of lines 996-1000
missOutNoValidation(pp, rawReq, req, o, doOpt, crash, mr, isFn, rtg) ==
  [o |-> o, doOpt |-> doOpt, req |-> req, mr |-> mr,
   err |-> IF crash THEN "TypeError"
           ELSE IF mr = None THEN "none"
           ELSE IF rtg.kind # "string" THEN "InvalidTargetReturn"
           ELSE "none",
   rr |-> IF mr = None \/ rtg.kind # "string" THEN rawReq
          ELSE rewrite(rtg.val, req, mr[1].a),
   mcalls |-> IF ha /\ ~crash THEN 1 ELSE 0,
   dyn |-> IF isFn THEN Some(<<pp, req, mr[1].a>>) ELSE None]

\* what a resolve on a cache miss computes, from the state it starts in:
\* lines 951-962 and 964-968, then the dispatch, the target and the path
missOut(pp, rawReq, req, o, doOpt, crash, mr, isFn, rtg) ==
  [o |-> o, doOpt |-> doOpt, req |-> req, mr |-> mr,
   err |-> IF crash THEN "TypeError"
           ELSE IF mr = None THEN "none"
           ELSE IF rtg.kind # "string" THEN "InvalidTargetReturn"
           ELSE IF ~isValidTarget(rtg.val) THEN "RejectedTarget"
           ELSE "none",
   rr |-> IF mr = None \/ rtg.kind # "string" THEN rawReq
          ELSE rewrite(rtg.val, req, mr[1].a),
   mcalls |-> IF ha /\ ~crash THEN 1 ELSE 0,
   dyn |-> IF isFn THEN Some(<<pp, req, mr[1].a>>) ELSE None]

missTarget(pp, rawReq, req, o, doOpt, crash, mr, isFn) ==
  missOut(pp, rawReq, req, o, doOpt, crash, mr, isFn,
          IF mr = None THEN NoTarget
          ELSE IF isFn THEN callFn(mr[1].t, pp, req, mr[1].a)
          ELSE mr[1].t)

missMatch(pp, rawReq, req, o, doOpt, crash, mr) ==
  missTarget(pp, rawReq, req, o, doOpt, crash, mr,
             mr # None /\ mr[1].t.kind = "function")

missDispatch(pp, rawReq, req, o, doOpt, crash) ==
  missMatch(pp, rawReq, req, o, doOpt, crash,
            IF ~ha \/ crash THEN None
            ELSE IF o.strat = lin THEN linScan(o.sa[1], 1, req)
            ELSE fnd(o.tree[1], req))

missOpt(pp, rawReq, req, o, doOpt) ==
  missDispatch(pp, rawReq, req, o, doOpt,
               ha /\ (IF o.strat = lin THEN o.sa = None ELSE o.tree = None))

miss(pp, rawReq) ==
  missOpt(pp, rawReq, underscore(rawReq),
          IF ha /\ ac THEN opt ELSE noOpt, ha /\ ac)

Init ==
  /\ s \in {"/", "\\"}
  /\ rc = lruNew(csz)
  /\ ev_b = FullEvb
  /\ strat = lin
  /\ minMode = FALSE
  /\ am = <<>>
  /\ seenAliases = {}
  /\ tree = None
  /\ sa = None
  /\ ha = FALSE
  /\ ac = FALSE
  /\ cp = <<>>
  /\ pa = <<>>
  /\ pc = FALSE
  /\ hrld = FALSE
  /\ imm = 0
  /\ paths = [md \in Modules |-> <<HostPath>>]
  /\ watch = 0
  /\ dbg = FALSE
  /\ last = obs("load")
  /\ used = <<>>
  /\ calls = 0

\* the keys by their last get hit or set, most recent first
touch(q, k) == <<k>> \o SelectSeq(q, LAMBDA x : x # k)

sameAgain(ck) ==
  last.op = "resolve" /\ last.key = Some(ck) /\ last.ret # None

\* Mod._resolveFilename on a cache hit (lines 945-949)
ResolveHit(ck) ==
  /\ rc' = lruGet(rc, ck)
  /\ last' = [obs("resolve") EXCEPT !.key = Some(ck), !.hit = TRUE,
                                    !.ret = Some(rc.m[ck].v),
                                    !.again = sameAgain(ck)]
  /\ used' = touch(used, ck)
  /\ UNCHANGED <<s, ev_b, strat, minMode, am, seenAliases, tree, sa, ha, ac>>
  /\ UNCHANGED <<dirs, host>>

\* Mod._resolveFilename on a cache miss (lines 951-1012), r being miss(..)
ResolveMiss(ck, r) ==
  /\ ha' = r.o.ha
  /\ sa' = r.o.sa
  /\ tree' = r.o.tree
  /\ strat' = r.o.strat
  /\ minMode' = r.o.minMode
  /\ ev_b' = r.o.ev_b
  /\ ac' = IF r.doOpt THEN FALSE ELSE ac
  /\ rc' = IF r.err = "none"
           THEN lruSet([rc EXCEPT !.max = r.o.max], ck, rfn(r.rr), r.o.ev_b)
           ELSE [rc EXCEPT !.max = r.o.max]
  /\ last' = [obs("resolve") EXCEPT
                !.key = Some(ck), !.rebuilt = r.doOpt,
                !.mcalls = r.mcalls, !.via = r.o.strat,
                !.dyn = r.dyn, !.mr = r.mr,
                !.rr = IF r.err = "none" THEN Some(r.rr) ELSE None,
                !.ret = IF r.err = "none" THEN Some(rfn(r.rr)) ELSE None,
                !.err = r.err, !.again = sameAgain(ck),
                !.evicted = IF r.err = "none"
                            THEN Cardinality(DOMAIN rc.m) + 1
                                 - Cardinality(DOMAIN rc'.m)
                            ELSE 0]
  /\ used' = IF r.err = "none"
             THEN SelectSeq(touch(used, ck), LAMBDA x : x \in DOMAIN rc'.m)
             ELSE used
  /\ UNCHANGED <<s, am, seenAliases, dirs, host>>

\* Mod._resolveFilename(req, prnt): resolve(context, rawRequest)
Resolve(pp, rawReq) ==
  IF lruHas(rc, cacheKey(pp, rawReq))
  THEN ResolveHit(cacheKey(pp, rawReq))
  ELSE ResolveMiss(cacheKey(pp, rawReq), miss(pp, rawReq))

\* aa(a, t): register(prefix, target)
Aa(a, t) ==
  /\ seenAliases' = seenAliases \cup {a}
  /\ am' = amSet(am, a, t)
  /\ ha' = TRUE
  /\ ac' = TRUE
  /\ last' = [obs("aa") EXCEPT !.notice = (a \in seenAliases),
                               !.arg = Some([a |-> a, t |-> t])]
  /\ UNCHANGED <<s, rc, ev_b, strat, minMode, tree, sa, used, dirs, host>>

\* rst without line 1219, seenAliases.clear()
RstKeepsSeenAliases ==
  /\ rc' = lruClr(rc)
  /\ am' = <<>>
  /\ tree' = None
  /\ sa' = None
  /\ ha' = FALSE
  /\ ac' = FALSE
  /\ minMode' = FALSE
  /\ cp' = <<>>
  /\ pa' = <<>>
  /\ pc' = FALSE
  /\ last' = [obs("rst") EXCEPT !.evicted = Cardinality(DOMAIN rc.m)]
  /\ used' = <<>>
  /\ hrld' = FALSE
  /\ dbg' = FALSE
  /\ paths' = [md \in Modules |-> cmp(paths[md], cp')]
  /\ UNCHANGED <<s, ev_b, strat, seenAliases, imm, watch>>

\* rst without lines 1217 and 1220, cp.clear() and pa = []
RstKeepsDirs ==
  /\ rc' = lruClr(rc)
  /\ am' = <<>>
  /\ seenAliases' = {}
  /\ tree' = None
  /\ sa' = None
  /\ ha' = FALSE
  /\ ac' = FALSE
  /\ minMode' = FALSE
  /\ pc' = FALSE
  /\ last' = [obs("rst") EXCEPT !.evicted = Cardinality(DOMAIN rc.m)]
  /\ used' = <<>>
  /\ hrld' = FALSE
  /\ dbg' = FALSE
  /\ UNCHANGED <<s, ev_b, strat, cp, pa, imm, watch>>
  /\ paths' = [md \in Modules |-> cmp(paths[md], cp')]

\* rst(): reset().  cmp runs on lines 1230-1238, after cp was cleared on
\* line 1217; the loop of lines 1239-1242 runs over the cleared cp and so
\* deletes nothing from require.cache.
Rst ==
  /\ rc' = lruClr(rc)
  /\ am' = <<>>
  /\ seenAliases' = {}
  /\ tree' = None
  /\ sa' = None
  /\ ha' = FALSE
  /\ ac' = FALSE
  /\ minMode' = FALSE
  /\ cp' = <<>>
  /\ pa' = <<>>
  /\ pc' = FALSE
  /\ last' = [obs("rst") EXCEPT !.evicted = Cardinality(DOMAIN rc.m)]
  /\ used' = <<>>
  /\ hrld' = FALSE
  /\ dbg' = FALSE
  /\ paths' = [md \in Modules |-> cmp(paths[md], cp')]
  /\ UNCHANGED <<s, ev_b, strat, imm, watch>>

\* _internal.forceStrategy(st)
ForceStrategy(st) ==
  /\ strat' = st
  /\ tree' = IF st = rdx THEN Some(bld(am)) ELSE tree
  /\ last' = obs("forceStrategy")
  /\ UNCHANGED <<s, rc, ev_b, minMode, am, seenAliases, sa, ha, ac, used>>
  /\ UNCHANGED <<dirs, host>>

\* _internal.clearCache()
ClearCache ==
  /\ rc' = lruClr(rc)
  /\ last' = [obs("clearCache") EXCEPT !.evicted = Cardinality(DOMAIN rc.m)]
  /\ used' = <<>>
  /\ UNCHANGED <<s, ev_b, strat, minMode, am, seenAliases, tree, sa, ha, ac>>
  /\ UNCHANGED <<dirs, host>>

\* ap(d): addDirectory(path)
Ap(d) ==
  /\ cp' = IF cpHas(cp, normalize(d)) THEN cp ELSE Append(cp, normalize(d))
  /\ pa' = IF cpHas(cp, normalize(d)) THEN pa ELSE sortDirs(cp')
  /\ pc' = IF cpHas(cp, normalize(d)) THEN pc ELSE TRUE
  /\ last' = [obs("ap") EXCEPT !.added = ~cpHas(cp, normalize(d)),
                               !.dir = Some(d)]
  /\ imm' = IF ~cpHas(cp, normalize(d)) /\ hrld THEN imm + 1 ELSE imm
  /\ UNCHANGED <<engine, used, hrld, paths, watch, dbg>>

\* the callback of setImmediate(apc), line 1055: apc()
Immediate ==
  /\ imm > 0
  /\ imm' = imm - 1
  /\ paths' = apc(paths, cp, pc)
  /\ pc' = FALSE
  /\ UNCHANGED <<engine, cp, pa, hrld, watch, dbg, last, used>>

\* addAliases(als): the aa calls of line 1255, from the i-th entry on
RECURSIVE aaLoop(_, _, _, _)
aaLoop(q, seen, als, i) ==
  IF i > Len(als) THEN [am |-> q, seen |-> seen]
  ELSE aaLoop(amSet(q, als[i].a, als[i].t), seen \cup {als[i].a}, als, i + 1)

\* addAliases(als): registerBulk(mapping)
addAliases(als) ==
  /\ am' = aaLoop(am, seenAliases, als, 1).am
  /\ seenAliases' = aaLoop(am, seenAliases, als, 1).seen
  /\ ha' = (ha \/ Len(als) > 0)
  /\ ac' = TRUE
  /\ last' = [obs("addAliases") EXCEPT !.added = (Len(als) > 0)]
  /\ UNCHANGED <<s, rc, ev_b, strat, minMode, tree, sa, used, dirs, host>>

(***************************************************************************)
(* init(opts).  A manifest mf says whether package.json was found, read    *)
(* and parsed (gbp, lpj), and holds the entries of its alias section and   *)
(* its _moduleDirectories; hot is opts.hotReload, debug is opts.debug.  The *)
(* base directory is Base.  An entry's target is a string or, here, a       *)
(* number.                                                                 *)
(***************************************************************************)
Base == <<"/", "b">>

\* p.join(a, b)
pjoin(a, b) == normalize(IF b = <<>> THEN a ELSE a \o <<f_sl>> \o b)

\* lines 1148-1154: the default presets
defaults ==
  <<[a |-> <<"@", "r", "o", "o", "t">>, t |-> Static(<<".">>)],
    [a |-> <<"@", "s", "r", "c">>, t |-> Static(<<"s", "r", "c">>)]>>

\* lines 1157-1165 from the i-th entry on: the registry and the seen set
\* it leaves, the error it throws and the number of aa calls made
RECURSIVE regLoop(_, _, _, _)
regLoop(q, seen, als, i) ==
  IF i > Len(als)
  THEN [am |-> q, seen |-> seen, err |-> "none", n |-> i - 1]
  ELSE IF als[i].t.kind \notin {"string", "function"}
  THEN [am |-> q, seen |-> seen, err |-> "InvalidAliasTarget", n |-> i - 1]
  ELSE IF als[i].t.kind = "function"
  THEN [am |-> q, seen |-> seen, err |-> "TypeError", n |-> i - 1]
  ELSE regLoop(amSet(q, als[i].a,
                     Static(IF startsWith(als[i].t.val, <<f_sl>>, 0)
                            THEN als[i].t.val
                            ELSE pjoin(Base, als[i].t.val))),
               seen \cup {als[i].a}, als, i + 1)

\* lines 1168-1171 from the i-th directory on: cp as the ap calls leave it
RECURSIVE apLoop(_, _, _)
apLoop(q, ds, i) ==
  IF i > Len(ds) THEN q
  ELSE IF ds[i] = NodeModules \/ cpHas(q, normalize(pjoin(Base, ds[i])))
  THEN apLoop(q, ds, i + 1)
  ELSE apLoop(Append(q, normalize(pjoin(Base, ds[i]))), ds, i + 1)

\* gbp or lpj throws (lines 1124-1125): nothing was assigned yet
initNoManifest ==
  /\ last' = [obs("init") EXCEPT !.err = "LoadError"]
  /\ UNCHANGED <<engine, dirs, host, used>>

\* the loop of lines 1157-1165 throws, r being what it did until then
initAliasFail(hot, debug, r) ==
  /\ dbg' = (dbg \/ debug)
  /\ hrld' = (hrld \/ hot)
  /\ watch' = IF hrld' THEN watch + 1 ELSE watch
  /\ am' = r.am
  /\ seenAliases' = r.seen
  /\ ha' = (ha \/ r.n > 0)
  /\ ac' = (ac \/ r.n > 0)
  /\ last' = [obs("init") EXCEPT !.err = r.err]
  /\ UNCHANGED <<s, rc, ev_b, strat, minMode, tree, sa, used, dirs>>
  /\ UNCHANGED <<imm, paths>>

\* init runs to its end: r is what the alias loop did, q what the ap calls
\* make of cp, o what opt() on line 1173 assigns
initDone(hot, debug, r, q, o) ==
  /\ dbg' = (dbg \/ debug)
  /\ hrld' = (hrld \/ hot)
  /\ watch' = IF hrld' THEN watch + 1 ELSE watch
  /\ am' = r.am
  /\ seenAliases' = r.seen
  /\ ac' = TRUE
  /\ ha' = o.ha
  /\ sa' = o.sa
  /\ tree' = o.tree
  /\ strat' = o.strat
  /\ minMode' = o.minMode
  /\ ev_b' = o.ev_b
  /\ rc' = [rc EXCEPT !.max = o.max]
  /\ cp' = q
  /\ pa' = IF q = cp THEN pa ELSE sortDirs(q)
  /\ imm' = IF hrld' THEN imm + (Len(q) - Len(cp)) ELSE imm
  /\ paths' = apc(paths, q, pc \/ q # cp)
  /\ pc' = FALSE
  /\ last' = [obs("init") EXCEPT !.rebuilt = TRUE]
  /\ UNCHANGED <<s, used>>

initLoaded(mf, hot, debug, r) ==
  IF r.err # "none" THEN initAliasFail(hot, debug, r)
  ELSE initDone(hot, debug, r, apLoop(cp, mf.dirs, 1),
                optOn(r.am, [noOpt EXCEPT !.ha = TRUE]))

init(mf, hot, debug) ==
  IF ~mf.found THEN initNoManifest
  ELSE initLoaded(mf, hot, debug,
                  regLoop(am, seenAliases,
                          IF Len(mf.als) = 0 THEN defaults ELSE mf.als, 1))

(***************************************************************************)
(* The listener that init gives f.watch (lines 1134-1140), run when        *)
(* package.json changes: rst(), then init({base, debug: dbg, hotReload:    *)
(* hrld}) with the flags as rst has left them.  mf is the manifest as it   *)
(* is now.  The listeners stay registered: nothing closes them.            *)
(***************************************************************************)
\* what rst() does for the listener, for all of its outcomes
reloadRst ==
  /\ pc' = FALSE
  /\ hrld' = FALSE
  /\ dbg' = FALSE
  /\ used' = <<>>
  /\ UNCHANGED <<s, imm, watch>>

\* lpj throws in the listener's init: the state is as rst has left it
reloadNoManifest ==
  /\ reloadRst
  /\ rc' = lruClr(rc)
  /\ tree' = None
  /\ sa' = None
  /\ am' = <<>>
  /\ seenAliases' = {}
  /\ ha' = FALSE
  /\ ac' = FALSE
  /\ minMode' = FALSE
  /\ cp' = <<>>
  /\ pa' = <<>>
  /\ paths' = [md \in Modules |-> cmp(paths[md], cp')]
  /\ last' = [obs("reload") EXCEPT !.err = "LoadError",
                                   !.evicted = Cardinality(DOMAIN rc.m)]
  /\ UNCHANGED <<ev_b, strat>>

\* the alias loop of the listener's init throws, r being what it did
reloadAliasFail(mf, r) ==
  /\ reloadRst
  /\ rc' = lruClr(rc)
  /\ tree' = None
  /\ sa' = None
  /\ am' = r.am
  /\ seenAliases' = r.seen
  /\ ha' = (r.n > 0)
  /\ ac' = (r.n > 0)
  /\ minMode' = FALSE
  /\ cp' = <<>>
  /\ pa' = <<>>
  /\ paths' = [md \in Modules |-> cmp(paths[md], cp')]
  /\ last' = [obs("reload") EXCEPT !.err = r.err, !.arg = Some(mf),
                                   !.evicted = Cardinality(DOMAIN rc.m)]
  /\ UNCHANGED <<ev_b, strat>>

\* the listener's init runs to its end: r, q and o as in initDone
reloadDone(mf, r, q, o) ==
  /\ reloadRst
  /\ rc' = [lruClr(rc) EXCEPT !.max = o.max]
  /\ am' = r.am
  /\ seenAliases' = r.seen
  /\ ha' = o.ha
  /\ ac' = TRUE
  /\ sa' = o.sa
  /\ tree' = o.tree
  /\ strat' = o.strat
  /\ minMode' = o.minMode
  /\ ev_b' = o.ev_b
  /\ cp' = q
  /\ pa' = sortDirs(q)
  /\ paths' = apc([md \in Modules |-> cmp(paths[md], <<>>)], q, q # <<>>)
  /\ last' = [obs("reload") EXCEPT !.rebuilt = TRUE, !.arg = Some(mf),
                                   !.evicted = Cardinality(DOMAIN rc.m)]

reloadLoaded(mf, r) ==
  IF r.err # "none" THEN reloadAliasFail(mf, r)
  ELSE reloadDone(mf, r, apLoop(<<>>, mf.dirs, 1),
                  optOn(r.am, [noOpt EXCEPT !.ha = TRUE, !.sa = None,
                                            !.tree = None,
                                            !.minMode = FALSE]))

Reload(mf) ==
  /\ watch > 0
  /\ IF ~mf.found THEN reloadNoManifest
     ELSE reloadLoaded(mf, regLoop(<<>>, {},
                                   IF Len(mf.als) = 0 THEN defaults
                                   ELSE mf.als, 1))

\* _internal.getStats(): the counts it reports
getStats ==
  [aliases |-> Len(am), paths |-> Len(cp),
   cacheSize |-> Cardinality(DOMAIN rc.m),
   strategy |-> IF strat = lin THEN "LINEAR" ELSE "RADIX",
   minimalMode |-> minMode, hotReload |-> hrld, debug |-> dbg]

(***************************************************************************)
(* Spec: the matchers.  Aliases that share a prefix, nest and differ at    *)
(* the boundary, static and dynamic targets, on both platforms; histories  *)
(* of at most MaxCalls public calls.                                       *)
(***************************************************************************)
MaxCalls == 4

A_a   == <<"@", "a">>
A_ab  == <<"@", "a", "/", "b">>
A_b   == <<"@", "b">>
R_abc == <<"@", "a", "/", "b", "/", "c">>
R_ac  == <<"@", "a", "/", "c">>
R_aB  == <<"@", "a", "b">>
T_x   == Static(<<"/", "x">>)
T_y   == Static(<<"/", "y">>)
T_dyn == Dynamic("fnD")
T_num == Dynamic("fnNum")
Ctx1  == <<"m">>
Ctx2  == <<"n">>

Aliases  == {A_a, A_ab, A_b}
Targets  == {T_x, T_y, T_dyn}
Contexts == {Ctx1}
Requests == {A_a, R_abc, R_ac, R_aB}

Tick == calls < MaxCalls /\ calls' = calls + 1

Next ==
  \/ \E pp \in Contexts, req \in Requests : Tick /\ Resolve(pp, req)
  \/ \E a \in Aliases, t \in Targets : Tick /\ Aa(a, t)
  \/ Tick /\ Rst
  \/ \E st \in {lin, rdx} : Tick /\ ForceStrategy(st)
  \/ Tick /\ ClearCache

Spec == Init /\ [][Next]_vars

(***************************************************************************)
(* SpecCache: the resolution cache, on a POSIX host.  One alias, enough    *)
(* keys to overflow the cache in either sizing, histories of any length.   *)
(***************************************************************************)
Q1 == <<"q">>
Q2 == <<"r">>

CacheAliases  == {A_a}
CacheTargets  == {T_x, T_num}
CacheContexts == {Ctx1, Ctx2}
CacheRequests == {A_a, Q1, Q2}

NextCache ==
  \/ \E pp \in CacheContexts, req \in CacheRequests :
        Resolve(pp, req) /\ UNCHANGED calls
  \/ \E a \in CacheAliases, t \in CacheTargets : Aa(a, t) /\ UNCHANGED calls
  \/ Rst /\ UNCHANGED calls
  \/ \E st \in {lin, rdx} : ForceStrategy(st) /\ UNCHANGED calls
  \/ ClearCache /\ UNCHANGED calls

InitCache == Init /\ s = "/"

SpecCache == InitCache /\ [][NextCache]_vars

(***************************************************************************)
(* SpecErr: targets that fail validation, on a POSIX host.  A static       *)
(* target that names the parent directory, a resolver that returns no      *)
(* string, and a valid target; two nested aliases; histories of at most    *)
(* MaxCalls public calls.                                                  *)
(***************************************************************************)
T_up == Static(<<"/", ".", ".">>)

ErrAliases  == {A_a, A_ab}
ErrTargets  == {T_x, T_up, T_num}
ErrRequests == {A_a, R_abc, Q1}

NextErr ==
  \/ \E req \in ErrRequests : Tick /\ Resolve(Ctx1, req)
  \/ \E a \in ErrAliases, t \in ErrTargets : Tick /\ Aa(a, t)
  \/ Tick /\ Rst
  \/ \E st \in {lin, rdx} : Tick /\ ForceStrategy(st)
  \/ Tick /\ ClearCache

SpecErr == InitCache /\ [][NextErr]_vars

(***************************************************************************)
(* SpecDirs: the custom paths, on either platform, with one alias and two  *)
(* cache keys beside them.  Paths that normalize to the same path, paths   *)
(* of equal length and a longer one; histories of any length.              *)
(***************************************************************************)
D_p    == <<"/", "p">>
D_pDot == <<"/", "p", "/", ".">>
D_q    == <<"/", "q">>
D_qr   == <<"/", "q", "r">>

Dirs         == {D_p, D_pDot, D_q, D_qr}
DirsRequests == {A_a, Q1}

NextDirs ==
  \/ \E d \in Dirs : Ap(d) /\ UNCHANGED calls
  \/ \E req \in DirsRequests : Resolve(Ctx1, req) /\ UNCHANGED calls
  \/ Aa(A_a, T_x) /\ UNCHANGED calls
  \/ Rst /\ UNCHANGED calls
  \/ \E st \in {lin, rdx} : ForceStrategy(st) /\ UNCHANGED calls
  \/ ClearCache /\ UNCHANGED calls

SpecDirs == Init /\ [][NextDirs]_vars

(***************************************************************************)
(* SpecInit: every public operation, on a POSIX host.  Manifests that are  *)
(* missing, empty, hold as many aliases as the radix threshold, or hold a  *)
(* valid entry before an invalid one; bulk registrations of no alias and   *)
(* of three; histories of at most MaxCalls public calls, with the          *)
(* scheduled callbacks running in between.                                 *)
(***************************************************************************)
D_rel == <<"d">>
T_rel == Static(<<"x">>)
T_five == [kind |-> "number", val |-> <<>>]

MfNone    == [found |-> FALSE, als |-> <<>>, dirs |-> <<>>]
MfEmpty   == [found |-> TRUE, als |-> <<>>, dirs |-> <<NodeModules>>]
MfThree   == [found |-> TRUE,
              als |-> <<[a |-> A_a, t |-> T_x], [a |-> A_ab, t |-> T_y],
                        [a |-> A_b, t |-> T_rel]>>,
              dirs |-> <<NodeModules, D_rel>>]
MfPartial == [found |-> TRUE,
              als |-> <<[a |-> A_a, t |-> T_x], [a |-> A_b, t |-> T_five]>>,
              dirs |-> <<D_rel>>]

Manifests == {MfNone, MfEmpty, MfThree, MfPartial}
Bulks     == {<<>>, MfThree.als}

NextInit ==
  \/ \E mf \in Manifests, hot \in BOOLEAN : Tick /\ init(mf, hot, FALSE)
  \/ \E als \in Bulks : Tick /\ addAliases(als)
  \/ \E req \in DirsRequests : Tick /\ Resolve(Ctx1, req)
  \/ Tick /\ Aa(A_a, T_x)
  \/ \E d \in {D_p, D_q} : Tick /\ Ap(d)
  \/ Tick /\ Rst
  \/ \E st \in {lin, rdx} : Tick /\ ForceStrategy(st)
  \/ Tick /\ ClearCache
  \/ Immediate /\ UNCHANGED calls

SpecInit == InitCache /\ [][NextInit]_vars

(***************************************************************************)
(* SpecLive: the propagation of the custom paths.  ap with hot reload on   *)
(* (after init) and off, reset, and the scheduled callbacks, which are     *)
(* assumed to run: a pending setImmediate callback is run eventually.      *)
(***************************************************************************)
NextLive ==
  \/ \E d \in {D_p, D_qr} : Tick /\ Ap(d)
  \/ \E hot \in BOOLEAN : Tick /\ init(MfEmpty, hot, FALSE)
  \/ Tick /\ Rst
  \/ Tick /\ Resolve(Ctx1, Q1)
  \/ Immediate /\ UNCHANGED calls

SpecLive ==
  InitCache /\ [][NextLive]_vars /\ WF_vars(Immediate /\ UNCHANGED calls)

(***************************************************************************)
(* SpecLru: the methods of class lru applied to the resolution cache one   *)
(* by one, get and set also on keys that are present, in both sizings      *)
(* that opt gives the cache (the minimal one being kept by a reset).       *)
(***************************************************************************)
LruKeys   == {cacheKey(Ctx1, Q1), cacheKey(Ctx1, Q2), cacheKey(Ctx2, Q1),
              cacheKey(Ctx2, Q2), cacheKey(Ctx1, A_a)}
LruValues == {D_p, D_q}

\* rc.get(k), lines 742-755
LruGet(k) ==
  /\ rc' = lruGet(rc, k)
  /\ last' = [obs("get") EXCEPT
                !.key = Some(k), !.hit = lruHas(rc, k),
                !.ret = IF lruHas(rc, k) THEN Some(rc'.m[k].v) ELSE None]
  /\ used' = IF lruHas(rc, k) THEN touch(used, k) ELSE used
  /\ UNCHANGED <<s, ev_b, strat, minMode, am, seenAliases, tree, sa, ha, ac>>
  /\ UNCHANGED <<dirs, host, calls>>

\* rc.set(k, v), lines 756-769
LruSet(k, v) ==
  /\ rc' = lruSet(rc, k, v, ev_b)
  /\ last' = [obs("set") EXCEPT
                !.key = Some(k), !.hit = lruHas(rc, k), !.arg = Some(v),
                !.evicted = Cardinality(DOMAIN rc.m \ DOMAIN rc'.m)]
  /\ used' = SelectSeq(touch(used, k), LAMBDA x : x \in DOMAIN rc'.m)
  /\ UNCHANGED <<s, ev_b, strat, minMode, am, seenAliases, tree, sa, ha, ac>>
  /\ UNCHANGED <<dirs, host, calls>>

\* the sizing of the cache by opt, lines 1093-1101: the entries stay
LruSize(min) ==
  /\ rc' = [rc EXCEPT !.max = IF min THEN MinMax ELSE csz]
  /\ ev_b' = IF min THEN MinEvb ELSE FullEvb
  /\ minMode' = min
  /\ last' = obs("opt")
  /\ UNCHANGED <<s, strat, am, seenAliases, tree, sa, ha, ac>>
  /\ UNCHANGED <<dirs, host, used, calls>>

\* rc.clr(), lines 785-789
LruClr ==
  /\ rc' = lruClr(rc)
  /\ last' = [obs("clr") EXCEPT !.evicted = Cardinality(DOMAIN rc.m)]
  /\ used' = <<>>
  /\ UNCHANGED <<s, ev_b, strat, minMode, am, seenAliases, tree, sa, ha, ac>>
  /\ UNCHANGED <<dirs, host, calls>>

NextLru ==
  \/ \E k \in LruKeys : LruGet(k)
  \/ \E k \in LruKeys, v \in LruValues : LruSet(k, v)
  \/ \E min \in BOOLEAN : LruSize(min)
  \/ LruClr

SpecLru == InitCache /\ [][NextLru]_vars

(***************************************************************************)
(* SpecReload: hot reload.  init with and without hot reload and debug     *)
(* mode, the change events of package.json reaching the registered         *)
(* listeners with the manifest as it is then, registrations and resolves   *)
(* in between; histories of at most MaxCalls public calls.                 *)
(***************************************************************************)
NextReload ==
  \/ \E mf \in {MfEmpty, MfThree}, hot \in BOOLEAN, debug \in BOOLEAN :
        Tick /\ init(mf, hot, debug)
  \/ \E mf \in Manifests : Reload(mf) /\ UNCHANGED calls
  \/ \E req \in DirsRequests : Tick /\ Resolve(Ctx1, req)
  \/ Tick /\ Aa(A_b, T_y)
  \/ Immediate /\ UNCHANGED calls

SpecReload == InitCache /\ [][NextReload]_vars

(***************************************************************************)
(* SpecUnderscore: the underscore rewrite of the request, on a POSIX host. *)
(* An alias that holds an underscore and has no slash, the alias that the  *)
(* rewrite makes of it, requests with and without underscores; histories   *)
(* of at most MaxCalls public calls.                                       *)
(***************************************************************************)
U_ab  == <<"a", "_", "b">>
U_b   == <<"_", "b">>
R_xbc == <<"x", "_", "b", "_", "c">>

UnderAliases  == {U_ab, U_b}
UnderTargets  == {T_x, T_y}
UnderRequests == {U_ab, U_b, R_xbc, Q1}

NextUnderscore ==
  \/ \E req \in UnderRequests : Tick /\ Resolve(Ctx1, req)
  \/ \E a \in UnderAliases, t \in UnderTargets : Tick /\ Aa(a, t)
  \/ Tick /\ Rst
  \/ \E st \in {lin, rdx} : Tick /\ ForceStrategy(st)
  \/ Tick /\ ClearCache

SpecUnderscore == InitCache /\ [][NextUnderscore]_vars

(***************************************************************************)
(* SpecTraversal: requests whose part after the alias names the parent     *)
(* directory or the home directory, on a POSIX host; targets that pass     *)
(* and that fail validation; histories of at most MaxCalls public calls.   *)
(***************************************************************************)
R_aUp    == <<"@", "a", "/", ".", ".">>
R_aTilde == <<"@", "a", "/", "~">>

TravTargets  == {T_x, T_up, T_dyn}
TravRequests == {A_a, R_aUp, R_aTilde}

NextTraversal ==
  \/ \E req \in TravRequests : Tick /\ Resolve(Ctx1, req)
  \/ \E t \in TravTargets : Tick /\ Aa(A_a, t)
  \/ Tick /\ Rst
  \/ \E st \in {lin, rdx} : Tick /\ ForceStrategy(st)
  \/ Tick /\ ClearCache

SpecTraversal == InitCache /\ [][NextTraversal]_vars

(***************************************************************************)
(* Notions of the claims.                                                  *)
(***************************************************************************)
\* the request and the context of the resolve call that last observes
lastReq == last.key[1][2]
lastCtx == last.key[1][1]

\* the call last observes is a resolve that went past the cache
missed == last.op = "resolve" /\ ~last.hit

\* p is a prefix of req that ends at the end of req or before a separator
boundaryPrefix(p, req) ==
  /\ startsWith(req, p, 0)
  /\ (Len(p) = Len(req) \/ isSep(charCodeAt(req, Len(p))))

\* the registered aliases that are boundary-valid prefixes of req
matching(req) == {p \in amKeys(am) : boundaryPrefix(p, req)}

longest(req) ==
  CHOOSE p \in matching(req) : \A q \in matching(req) : Len(q) <= Len(p)

goodStatic(t) == t.kind = "string" /\ isValidTarget(t.val)

\* C1: on a POSIX host and a cache miss, a request that is a registered
\* alias p with a valid static target t, or p + "/" + suffix, and that no
\* longer registered alias matches, is resolved to t, or to t + "/" + suffix.
C1_StaticAliasResolves ==
  (missed /\ s = "/") =>
    \A p \in matching(lastReq) :
      (p = longest(lastReq) /\ goodStatic(amGet(am, p))
         /\ (Len(p) = Len(lastReq) \/ charCodeAt(lastReq, Len(p)) = "/"))
      => last.rr = Some(amGet(am, p).val \o slice(lastReq, Len(p)))

\* C2: a resolve that consulted the Trie Matcher found what the Linear
\* Matcher finds on the same registry: the same matched/unresolved outcome,
\* the same alias prefix and target, hence the same rewritten path.
C2_StrategyEquivalence ==
  (missed /\ last.mcalls = 1 /\ last.via = rdx) =>
    last.mr = linScan(sortByLenDesc(am), 1, underscore(lastReq))

\* C3: a matcher returns a match only with a prefix of the request that is
\* followed by the end of the request or by a path separator.
C3_BoundaryCorrectness ==
  (missed /\ last.mr # None) => boundaryPrefix(last.mr[1].a, lastReq)

\* C4: when several registered aliases are boundary-valid prefixes of the
\* request, resolve uses the longest one: its target and, on a POSIX host
\* with a static target, that target followed by the rest of the request.
C4_LongestMatch ==
  (missed /\ Cardinality(matching(lastReq)) >= 2) =>
    /\ last.mr # None
    /\ last.mr[1].t = amGet(am, longest(lastReq))
    /\ (s = "/" /\ goodStatic(last.mr[1].t)) =>
         last.rr = Some(last.mr[1].t.val \o slice(lastReq, Len(longest(lastReq))))

\* C5: a resolve of a request that is exactly a registered alias with a
\* valid static target returns what the host loader makes of the current
\* target, also when the pair was resolved before the registration (here:
\* when it is served from the cache).
C5_NoStaleResult ==
  (last.op = "resolve" /\ last.hit /\ amHas(am, lastReq)
     /\ goodStatic(amGet(am, lastReq)))
  => last.ret = Some(rfn(amGet(am, lastReq).val))

\* C9: when no registered alias is a boundary-valid prefix of the request,
\* resolve finds no match and hands the request to the host loader as it is.
C9_UnresolvedPassesThrough ==
  (missed /\ matching(lastReq) = {}) =>
    /\ last.mr = None
    /\ last.rr = Some(lastReq)

\* C10: a dynamic resolver is called with the caller's context, the raw
\* request and the full registered alias prefix that matched.
C10_DynamicArguments ==
  (missed /\ last.dyn # None) =>
    /\ last.dyn[1][1] = lastCtx
    /\ last.dyn[1][2] = lastReq
    /\ last.dyn[1][3] \in matching(lastReq)
    /\ amGet(am, last.dyn[1][3]).kind = "function"

C7_SizeWithinCapacity ==
  (missed /\ last.err = "none") => Cardinality(DOMAIN rc.m) <= rc.max

\* C8: an insertion of a new key that brings the cache to capacity + 1
\* removes exactly ev_b entries, ev_b being the configured fraction of the
\* capacity; the entries removed are the ev_b entries whose last get hit or
\* set is the oldest, and all others stay, in their order and with their
\* values, behind the key just inserted.
C8_BatchEviction ==
  [][(last'.op = "resolve" /\ ~last'.hit /\ last'.err = "none"
        /\ Cardinality(DOMAIN rc.m) = rc'.max)
       => LET ord  == used
              keep == SubSeq(ord, 1, Len(ord) - ev_b')
          IN /\ ev_b' = rc'.max \div BatchDiv
             /\ last'.evicted = ev_b'
             /\ Cardinality(DOMAIN rc'.m) = rc'.max + 1 - ev_b'
             /\ Len(ord) = rc'.max
             /\ lruOrder(rc') = <<last'.key[1]>> \o keep
             /\ DOMAIN rc'.m = {last'.key[1]} \cup {keep[i] : i \in 1..Len(keep)}
             /\ \A k \in DOMAIN rc'.m \ {last'.key[1]} : rc'.m[k].v = rc.m[k].v
     ]_vars

\* an insertion at capacity + 1 has evicted a batch of two or more entries
C8_Witness ==
  /\ missed
  /\ last.evicted = ev_b
  /\ ev_b >= 2
  /\ Cardinality(DOMAIN rc.m) = rc.max + 1 - ev_b

\* what the target of the match that o records yields for the request: the
\* static target itself, or what the resolver returns
yielded(o) ==
  IF o.mr[1].t.kind = "function"
  THEN callFn(o.mr[1].t, o.key[1][1], o.key[1][2], o.mr[1].a)
  ELSE o.mr[1].t

\* C11: when the target selected for a request is a dynamic resolver that
\* returns a value that is no string, the resolve call fails with
\* InvalidTargetReturn: the resolver was invoked for it, the host loader was
\* not, nothing is returned; and in the state the call leaves, a resolve of
\* any request does not break down, and a request that no alias matches is
\* handed to the host loader as it is.
C11_InvalidTargetReturn ==
  (missed /\ last.mr # None /\ last.mr[1].t.kind = "function"
     /\ yielded(last).kind # "string")
  => /\ last.err = "InvalidTargetReturn"
     /\ last.dyn # None
     /\ last.rr = None
     /\ last.ret = None
     /\ \A req \in ErrRequests : miss(Ctx1, req).err # "TypeError"
     /\ miss(Ctx1, Q1).err = "none"
     /\ miss(Ctx1, Q1).rr = Q1

\* a resolve has failed on a resolver that returned no string
C11_Witness ==
  /\ missed
  /\ last.err = "InvalidTargetReturn"
  /\ last.dyn # None
  /\ amHas(am, A_a) /\ amGet(am, A_a) = T_num

\* C12: register takes any target without an error; a resolve whose matched
\* alias yields a string with "..", "~" or a NUL in it fails with
\* RejectedTarget; and a resolve of a request that no registered alias
\* matches, or whose longest matching alias has a valid static target, does
\* not fail, whatever targets the other aliases have.
C12_RejectedTarget ==
  /\ last.op = "aa" => last.err = "none"
  /\ (missed /\ last.mr # None /\ yielded(last).kind = "string"
        /\ ~isValidTarget(yielded(last).val))
     => last.err = "RejectedTarget"
  /\ (missed /\ matching(lastReq) = {}) => last.err = "none"
  /\ (missed /\ matching(lastReq) # {}
        /\ goodStatic(amGet(am, longest(lastReq))))
     => last.err = "none"

\* o records a resolve whose matched target yields no string, or a string
\* that validation rejects
failsValidation(o) ==
  /\ o.op = "resolve"
  /\ ~o.hit
  /\ o.mr # None
  /\ (yielded(o).kind # "string" \/ ~isValidTarget(yielded(o).val))

\* C13: a resolve that fails validation leaves the registry, the cache
\* entries, their values and their recency order as they were and stores
\* nothing under its own key; a resolve of the same key that follows it is not
\* served from the cache and consults the matcher again.
C13_FailureLeavesStateUnchanged ==
  [][/\ failsValidation(last')
        => /\ last'.err \in {"InvalidTargetReturn", "RejectedTarget"}
           /\ last'.ret = None
           /\ am' = am
           /\ seenAliases' = seenAliases
           /\ rc'.m = rc.m /\ rc'.h = rc.h /\ rc'.t = rc.t
           /\ lruOrder(rc') = lruOrder(rc)
           /\ used' = used
           /\ ~lruHas(rc', last'.key[1])
     /\ (failsValidation(last) /\ last'.op = "resolve"
          /\ last'.key = last.key)
        => /\ ~last'.hit
           /\ last'.mcalls = 1
           /\ last'.err = last.err
    ]_vars

\* a resolve has failed on a rejected target while the cache held an entry
C13_Witness ==
  /\ missed
  /\ last.err = "RejectedTarget"
  /\ Len(am) >= 1
  /\ Cardinality(DOMAIN rc.m) >= 1
  /\ ~lruHas(rc, last.key[1])

\* the array holds exactly the entries of the registry
sameEntries(arr, q) ==
  /\ Len(arr) = Len(q)
  /\ {arr[i] : i \in 1..Len(arr)} = {q[i] : i \in 1..Len(q)}

descendingLength(arr) ==
  \A i \in 1..(Len(arr) - 1) : Len(arr[i].a) >= Len(arr[i + 1].a)

C15_MinimalMode ==
  (last.op = "resolve" /\ last.rebuilt /\ Len(am) > 0) =>
    /\ minMode <=> Len(am) < MinModeBelow
    /\ (rc.max = MinMax /\ ev_b = MinEvb) <=> Len(am) < MinModeBelow
    /\ Len(am) >= MinModeBelow => (rc.max = csz /\ ev_b = FullEvb)

\* a reconciliation has set the full sizes, after an earlier resolve went
\* through an alias and so through an earlier reconciliation
C15_Witness ==
  /\ last.op = "resolve" /\ last.rebuilt
  /\ Len(am) >= MinModeBelow
  /\ rc.max = csz /\ ev_b = FullEvb
  /\ \E k \in DOMAIN rc.m : k # last.key[1] /\ rc.m[k].v.file # k[2]

\* C16: a resolve that follows a forceStrategy call on a registry that is
\* not empty and is below the radix threshold, and that consults a matcher,
\* consults the matcher that was forced.
C16_ForcedStrategyPersists ==
  [][(last.op = "forceStrategy" /\ 0 < Len(am) /\ Len(am) < LinearBelow
        /\ last'.op = "resolve" /\ last'.mcalls = 1)
       => last'.via = strat]_vars

\* C17: a register call never fails; afterwards the prefix has the target
\* of the call and every other alias has the target it had; when the prefix
\* was registered already (since the last reset, which alone removes
\* aliases) the alias count is unchanged; and the duplicate notice is
\* emitted if and only if the prefix was registered already.
C17_DuplicateNotice ==
  [][last'.op = "aa"
       => /\ last'.err = "none"
          /\ amKeys(am') = amKeys(am) \cup {last'.arg[1].a}
          /\ amGet(am', last'.arg[1].a) = last'.arg[1].t
          /\ \A b \in amKeys(am) \ {last'.arg[1].a} :
                amGet(am', b) = amGet(am, b)
          /\ Len(am') = Cardinality(amKeys(am'))
          /\ amHas(am, last'.arg[1].a) => Len(am') = Len(am)
          /\ last'.notice <=> amHas(am, last'.arg[1].a)
    ]_vars

\* a prefix has been registered again, with a notice, beside another alias
C17_Witness ==
  /\ last.op = "aa"
  /\ last.notice
  /\ Len(am) >= 2
  /\ amGet(am, last.arg[1].a) = last.arg[1].t

\* C18: in the state reset() leaves, the registry, the cache and the custom
\* paths are empty and there is no matcher, getStats reports no alias, no
\* path and no cache entry, and a resolve of any request would hand the
\* request on as it is; and as long as the registry is empty a resolve
\* consults no matcher and hands the request on as it is.
C18_ResetClearsAll ==
  /\ last.op = "rst"
     => /\ am = <<>> /\ seenAliases = {}
        /\ rc.m = <<>> /\ rc.h = None /\ rc.t = None
        /\ cp = <<>> /\ pa = <<>>
        /\ ~ha /\ tree = None /\ sa = None
        /\ getStats.aliases = 0
        /\ getStats.paths = 0
        /\ getStats.cacheSize = 0
        /\ \A req \in DirsRequests :
              /\ miss(Ctx1, req).mr = None
              /\ miss(Ctx1, req).err = "none"
              /\ miss(Ctx1, req).rr = req
  /\ (missed /\ am = <<>>)
     => /\ last.mcalls = 0
        /\ last.mr = None
        /\ last.rr = Some(lastReq)

\* a reset has emptied a cache of two entries while the trie was selected
C18_Witness ==
  /\ last.op = "rst"
  /\ last.evicted >= 2
  /\ strat = rdx

elements(q) == {q[i] : i \in 1..Len(q)}

\* C19: after every call the custom paths are normalized paths, each held
\* once, and the sequence exposed holds the same paths by non-increasing
\* length; an ap call leaves the normalized path of its argument in the set,
\* adds nothing else, and changes nothing at all when that path was in the
\* set already.
C19_DirectorySet ==
  [][/\ \A i, j \in 1..Len(pa') : i # j => pa'[i] # pa'[j]
     /\ \A i, j \in 1..Len(cp') : i # j => cp'[i] # cp'[j]
     /\ elements(pa') = elements(cp')
     /\ \A i \in 1..Len(pa') : normalize(pa'[i]) = pa'[i]
     /\ \A i \in 1..(Len(pa') - 1) : Len(pa'[i]) >= Len(pa'[i + 1])
     /\ last'.op = "ap"
        => /\ elements(cp') = elements(cp) \cup {normalize(last'.dir[1])}
           /\ cpHas(cp, normalize(last'.dir[1]))
              => (cp' = cp /\ pa' = pa /\ pc' = pc /\ engine' = engine)
    ]_vars

\* a path that normalizes to one of three paths of the set, which differ in
\* length, has been added again
C19_Witness ==
  /\ last.op = "ap"
  /\ ~last.added
  /\ last.dir[1] # normalize(last.dir[1])
  /\ Len(pa) >= 3
  /\ Len(pa[1]) > Len(pa[Len(pa)])

\* C20: clearCache() leaves the cache without an entry and changes nothing
\* else: not the registry, the custom paths, the strategy, the matcher
\* structures, the dirty flag or the cache sizing; the resolve that follows
\* it is not served from the cache, and with aliases active it goes to the
\* matcher dispatch again.
C20_ClearCacheFrame ==
  [][/\ last'.op = "clearCache"
        => /\ rc'.m = <<>> /\ rc'.h = None /\ rc'.t = None
           /\ rc'.max = rc.max
           /\ UNCHANGED <<am, seenAliases, cp, pa, pc>>
           /\ UNCHANGED <<strat, tree, sa, ha, ac, minMode, ev_b, s>>
     /\ (last.op = "clearCache" /\ last'.op = "resolve")
        => /\ ~last'.hit
           /\ ha => (last'.mcalls = 1 \/ last'.err = "TypeError")
    ]_vars

\* clearCache has dropped two entries while an alias was registered and not
\* yet reconciled, and a custom path was set
C20_Witness ==
  /\ last.op = "clearCache"
  /\ last.evicted >= 2
  /\ ha /\ ac
  /\ Len(cp) >= 1


\* C21: initialization fails closed: an init call that fails with an error
\* leaves the registry of aliases as it was before the call.
C21_InitFailsClosed ==
  [][(last'.op = "init" /\ last'.err # "none") => am' = am]_vars

propagated(d) == \A md \in Modules : cpHas(paths[md], d)

\* C23: after an ap call has added a new directory d, d is eventually in the
\* search paths of the main module and of every module on the parent chain,
\* by the scheduled callbacks alone: unless another call to the engine
\* comes first.
C23_PathPropagation ==
  \A d \in {D_p, D_qr} : \A n \in 1..MaxCalls :
    (last.op = "ap" /\ last.added /\ last.dir = Some(d) /\ calls = n)
      ~> (propagated(d) \/ calls # n)

\* the same, for the ap calls made while hot reload is on: the only ones
\* that schedule the propagation
C23_PathPropagationHot ==
  \A d \in {D_p, D_qr} : \A n \in 1..MaxCalls :
    (last.op = "ap" /\ last.added /\ last.dir = Some(d) /\ calls = n /\ hrld)
      ~> (propagated(d) \/ calls # n)

\* C24: after a reset, none of the directories that were in the directory
\* set and had been propagated to the search paths of the main module and
\* of the parent chain remains in any of these search paths.
C24_ResetRemovesPaths ==
  [][last'.op = "rst" =>
       \A d \in elements(cp) :
         propagated(d) => \A md \in Modules : ~cpHas(paths'[md], d)]_vars

\* the recency order of c without the key k
without(c, k) == SelectSeq(lruOrder(c), LAMBDA x : x # k)

\* the stored values of c
values(c) == [k \in DOMAIN c.m |-> c.m[k].v]

\* C25: a get of a key that is present returns the stored value, makes the
\* key the most recently used one and keeps the order of the other keys,
\* the size and all values; a get of a key that is absent changes nothing;
\* a set of a key that is present replaces its value, makes the key the
\* most recently used one, keeps the order and the values of the other
\* keys and the size, and evicts nothing, whatever the capacity.
C25_CacheRecency ==
  [][/\ (last'.op = "get" /\ last'.hit) =>
          /\ last'.ret = Some(rc.m[last'.key[1]].v)
          /\ lruOrder(rc') = <<last'.key[1]>> \o without(rc, last'.key[1])
          /\ values(rc') = values(rc)
          /\ rc'.max = rc.max
     /\ (last'.op = "get" /\ ~last'.hit) => rc' = rc
     /\ (last'.op = "set" /\ last'.hit) =>
          /\ rc'.m[last'.key[1]].v = last'.arg[1]
          /\ lruOrder(rc') = <<last'.key[1]>> \o without(rc, last'.key[1])
          /\ DOMAIN rc'.m = DOMAIN rc.m
          /\ \A k \in DOMAIN rc.m \ {last'.key[1]} : rc'.m[k].v = rc.m[k].v
          /\ last'.evicted = 0]_vars

\* a set has replaced the value of the least recently used key of a cache
\* that holds more entries than its capacity, three in all, and the key has
\* become the most recently used one
C25_Witness ==
  /\ last.op = "set" /\ last.hit
  /\ Cardinality(DOMAIN rc.m) = 3
  /\ Cardinality(DOMAIN rc.m) > rc.max
  /\ rc.h = last.key
  /\ rc.t # last.key
  /\ rc.m[last.key[1]].v = D_q

\* p followed by "/x"
below(p) == p \o <<f_sl, "x">>

\* the trie find on the tree returns a match that carries the target of p
findsTargetOf(req, p) ==
  /\ fnd(tree[1], req) # None
  /\ fnd(tree[1], req)[1].t = amGet(am, p)

\* C26: when the tree holds the aliases of the registry, inserted in the
\* order of their registration, whatever it was, the trie find of every
\* alias p returns a match with the target of p, and the trie find of
\* p + "/x" returns one with the target of p when no longer alias matches.
C26_TrieInsertionComplete ==
  (tree # None /\ tree = Some(bld(am))) =>
    \A p \in amKeys(am) :
      /\ findsTargetOf(p, p)
      /\ (\A q \in matching(below(p)) : Len(q) <= Len(p))
           => findsTargetOf(below(p), p)

\* the node n keeps the radix form: its children are stored under the first
\* character of their edge labels, which are not empty, so that no two of
\* them start with the same character; and so below n
RECURSIVE radixForm(_)
radixForm(n) ==
  \A k \in DOMAIN n.c :
    /\ Len(n.c[k].e) > 0
    /\ k = charCodeAt(n.c[k].e, 0)
    /\ \A k2 \in DOMAIN n.c \ {k} :
         charCodeAt(n.c[k2].e, 0) # charCodeAt(n.c[k].e, 0)
    /\ radixForm(n.c[k])

\* C27: after any sequence of trie insertions, at every node no two
\* children have edge labels with the same first character, every child is
\* stored under the first character of its edge label, and every node but
\* the root has an edge label that is not empty.
C27_RadixInvariant == tree # None => radixForm(tree[1])

\* C28: a match that the trie find returns for a request names a registered
\* alias: its prefix is a key of the registry, its target is the target
\* registered for that key, and the request starts with the prefix.
C28_TrieMatchRegistered ==
  (missed /\ last.mcalls = 1 /\ last.via = rdx /\ last.mr # None) =>
    /\ amHas(am, last.mr[1].a)
    /\ last.mr[1].t = amGet(am, last.mr[1].a)
    /\ startsWith(underscore(lastReq), last.mr[1].a, 0)

\* the next resolve that goes past the cache will rebuild the matcher
\* (lines 964-968)
rebuildDue == ha /\ ac

\* C29: the matcher is rebuilt during a resolve only if the alias set has
\* changed since the previous rebuild: the resolve that follows a
\* successful init, which rebuilds, performs no rebuild; a bulk
\* registration of an empty mapping makes no rebuild due that was not due
\* before; and a resolve served from the cache never rebuilds.
C29_LazyRebuild ==
  [][/\ (last.op = "init" /\ last.err = "none" /\ last.rebuilt
           /\ last'.op = "resolve") => ~last'.rebuilt
     /\ (last'.op = "addAliases" /\ ~last'.added /\ ~rebuildDue)
          => ~rebuildDue'
     /\ (last'.op = "resolve" /\ last'.hit) => ~last'.rebuilt]_vars

\* C30: in every state that the public operations reach, a resolve that
\* dispatches to a matcher finds the structure of that matcher: the sorted
\* array on the linear branch, the tree on the radix branch; so no resolve
\* breaks down on a missing structure.
C30_MatcherPresent ==
  /\ (last.op = "resolve" /\ ~last.hit) => last.err # "TypeError"
  /\ (ha /\ ~ac) => (IF strat = lin THEN sa # None ELSE tree # None)

\* C31: a reset returns the strategy and the cache sizing to their initial
\* values: after it getStats reports the LINEAR strategy, and the cache has
\* its full capacity and its full eviction batch, whatever they were before.
C31_ResetRestoresStrategyAndSizing ==
  [][last'.op = "rst" =>
       /\ getStats'.strategy = "LINEAR"
       /\ rc'.max = csz
       /\ ev_b' = FullEvb]_vars

\* the entries of the alias section that init registers for the manifest mf
\* (the defaults when the section is empty), as a set
entriesOf(mf) ==
  LET als == IF Len(mf.als) = 0 THEN defaults ELSE mf.als
  IN {als[i] : i \in 1..Len(als)}

\* what init registers for the target t of a manifest entry
absolute(t) ==
  Static(IF startsWith(t.val, <<f_sl>>, 0) THEN t.val ELSE pjoin(Base, t.val))

\* C32: when hot reload is on and a change event of the manifest fires, the
\* listener's reset and re-initialization, if it succeeds, leaves the
\* registry with exactly the aliases of the new manifest, the cache without
\* any entry from before the reload, and the hot reload and debug flags as
\* they were before the event.
C32_HotReload ==
  [][(hrld /\ last'.op = "reload" /\ last'.err = "none") =>
       /\ amKeys(am') = {e.a : e \in entriesOf(last'.arg[1])}
       /\ \A e \in entriesOf(last'.arg[1]) : amGet(am', e.a) = absolute(e.t)
       /\ DOMAIN rc'.m = {}
       /\ hrld' = hrld
       /\ dbg' = dbg]_vars

\* C33: the underscore rewrite is applied only to a request that no
\* registered alias matches as a boundary-valid prefix; and a request that
\* is itself a registered alias is matched, by the linear scan, with that
\* alias and with no other.
C33_UnderscoreFallbackOnly ==
  missed =>
    /\ matching(lastReq) # {} => underscore(lastReq) = lastReq
    /\ (amHas(am, lastReq) /\ last.mcalls = 1 /\ last.via = lin)
         => (last.mr # None /\ last.mr[1].a = lastReq)

\* C34: whenever an alias matches, the rewritten path that is handed to the
\* host loader, the target joined with the rest of the request, holds no
\* "..", no "~" and no NUL character.
C34_NoTraversalInRewrittenPath ==
  (missed /\ last.mr # None /\ last.rr # None) =>
    /\ ~includes(last.rr[1], <<".", ".">>)
    /\ ~includes(last.rr[1], <<"~">>)
    /\ ~includes(last.rr[1], <<"NUL">>)

\* the keys met from cur on along the next links, at most n of them; a
\* link to a key that the map does not hold ends the chain with that key
RECURSIVE chain(_, _, _)
chain(c, cur, n) ==
  IF cur = None \/ n = 0 THEN <<>>
  ELSE IF cur[1] \notin DOMAIN c.m THEN <<cur[1]>>
  ELSE <<cur[1]>> \o chain(c, c.m[cur[1]].next, n - 1)

\* the keys reachable from the head of the cache
fromHead == chain(rc, rc.h, Cardinality(DOMAIN rc.m) + 1)

\* C35: after any sequence of get, set, eviction and clear, the entries
\* reachable from the head by the next links are exactly the entries of
\* the key map, each once; the prev and next links agree with each other;
\* the head has no prev, the tail has no next and is the last entry
\* reachable from the head; and head and tail are null exactly when the
\* map is empty.
C35_LruStructure ==
  /\ Len(fromHead) = Cardinality(DOMAIN rc.m)
  /\ elements(fromHead) = DOMAIN rc.m
  /\ \A k \in DOMAIN rc.m :
       /\ rc.m[k].next # None =>
            /\ rc.m[k].next[1] \in DOMAIN rc.m
            /\ rc.m[rc.m[k].next[1]].prev = Some(k)
       /\ rc.m[k].prev # None =>
            /\ rc.m[k].prev[1] \in DOMAIN rc.m
            /\ rc.m[rc.m[k].prev[1]].next = Some(k)
  /\ rc.h # None => (rc.h[1] \in DOMAIN rc.m /\ rc.m[rc.h[1]].prev = None)
  /\ rc.t # None =>
       /\ rc.t[1] \in DOMAIN rc.m
       /\ rc.m[rc.t[1]].next = None
       /\ rc.t = Some(fromHead[Len(fromHead)])
  /\ rc.h = None <=> DOMAIN rc.m = {}
  /\ rc.t = None <=> DOMAIN rc.m = {}

\* a set has entered a new key in a full cache of the full capacity and so
\* evicted a batch of two from the tail; the key is the head of the three
\* entries that stay
C35_Witness ==
  /\ last.op = "set" /\ ~last.hit
  /\ last.evicted = 2
  /\ rc.max = csz
  /\ Cardinality(DOMAIN rc.m) = 3
  /\ rc.h = last.key
  /\ rc.t # rc.h

====
